---- MODULE Spec2Model ----
(***************************************************************************)
(* Model of process_zip_to_llm_txt (src/app.py): the archive-to-text       *)
(* flattening pipeline.  Strings and byte strings are sequences of code    *)
(* points (Python str / bytes), so lengths, slices, ordering and case      *)
(* folding are computed as Python computes them.                           *)
(***************************************************************************)
EXTENDS Integers, Sequences, FiniteSets, TLC

VARIABLES
    upload,              \* the zip_file argument: "none", "invalid" or "valid"
    namelist,            \* the archive's entries, in archive order
    max_chars,           \* 0 stands for None / 0 (both falsy)
    exclude_extensions,  \* sequence of suffix strings
    filter_patterns,     \* sequence of regex source strings
    max_lines_per_file,  \* 0 stands for None / 0 (both falsy)
    pc,                  \* position in the function
    file_list,
    stats,
    output_text,
    total_chars,
    i,                   \* 1-based index of the loop over file_list
    content,             \* bytes of the current file
    encoding,
    decoded_content,
    filtered_lines,
    ret                  \* the returned tuple, <<>> before the return

vars == <<upload, namelist, max_chars, exclude_extensions, filter_patterns,
          max_lines_per_file, pc, file_list, stats, output_text, total_chars,
          i, content, encoding, decoded_content, filtered_lines, ret>>

inputs == <<upload, namelist, max_chars, exclude_extensions, filter_patterns,
            max_lines_per_file>>

locals == <<content, encoding, decoded_content, filtered_lines>>

-----------------------------------------------------------------------------
(* Bounds of the model *)

\* Largest number of entries of an archive.
MaxFiles == 3

\* Largest per-file line cap tried (max_lines_per_file ranges over 0..MaxLineCap).
MaxLineCap == 3

-----------------------------------------------------------------------------
(* Python sequence primitives *)

Min(a, b) == IF a < b THEN a ELSE b

Max(a, b) == IF a > b THEN a ELSE b

\* A slice index k clamped into 0..n the way Python clamps it.
SliceIndex(k, n) == IF k < 0 THEN Max(n + k, 0) ELSE Min(k, n)

\* s[lo:hi] with Python's 0-based, possibly negative, indices.
PySlice(s, lo, hi) ==
    LET a == SliceIndex(lo, Len(s))
        b == SliceIndex(hi, Len(s))
    IN  IF a >= b THEN <<>> ELSE SubSeq(s, a + 1, b)

\* s[:k]
PyPrefix(s, k) == PySlice(s, 0, k)

\* s[k:]   (s[-0:] is s[0:], the whole sequence)
PyFrom(s, k) == PySlice(s, k, Len(s))

\* s.endswith(suffix)
EndsWith(s, suffix) ==
    /\ Len(suffix) <= Len(s)
    /\ SubSeq(s, Len(s) - Len(suffix) + 1, Len(s)) = suffix

\* c.lower() for one code point (ASCII letters; the model's paths are ASCII).
LowerChar(c) == IF c >= 65 /\ c <= 90 THEN c + 32 ELSE c

\* s.lower()
Lower(s) == [k \in 1..Len(s) |-> LowerChar(s[k])]

\* c * n
Repeat(c, n) == [k \in 1..n |-> c]

\* a < b for strings: code point by code point, a proper prefix first.
RECURSIVE StrLess(_, _)
StrLess(a, b) ==
    IF b = <<>> THEN FALSE
    ELSE IF a = <<>> THEN TRUE
    ELSE IF a[1] # b[1] THEN a[1] < b[1]
    ELSE StrLess(Tail(a), Tail(b))

\* Insertion of x into a sorted sequence, after its equals (sorted is stable).
RECURSIVE Insert(_, _)
Insert(x, s) ==
    IF s = <<>> THEN <<x>>
    ELSE IF StrLess(x, s[1]) THEN <<x>> \o s
    ELSE <<s[1]>> \o Insert(x, Tail(s))

\* sorted(s) for a list of strings.
RECURSIVE Sorted(_)
Sorted(s) ==
    IF s = <<>> THEN <<>>
    ELSE Insert(s[Len(s)], Sorted(SubSeq(s, 1, Len(s) - 1)))

\* sep.join(parts)
RECURSIVE Join(_, _)
Join(sep, parts) ==
    IF parts = <<>> THEN <<>>
    ELSE IF Len(parts) = 1 THEN parts[1]
    ELSE parts[1] \o sep \o Join(sep, Tail(parts))

-----------------------------------------------------------------------------
(* String literals of the program *)

NL == 10

\* "\n\n"
Separator == <<10, 10>>

\* '...'
Marker == <<46, 46, 46>>

\* width of the '=' rule of a header
HeaderBar == 48

\* "\n\n[Content truncated due to size limit]\n"
TruncatedNotice ==
    <<10, 10, 91, 67, 111, 110, 116, 101, 110, 116, 32, 116, 114, 117, 110,
      99, 97, 116, 101, 100, 32, 100, 117, 101, 32, 116, 111, 32, 115, 105,
      122, 101, 32, 108, 105, 109, 105, 116, 93, 10>>

\* "\n\n[Remaining files omitted due to size limit]\n"
OmittedNotice ==
    <<10, 10, 91, 82, 101, 109, 97, 105, 110, 105, 110, 103, 32, 102, 105,
      108, 101, 115, 32, 111, 109, 105, 116, 116, 101, 100, 32, 100, 117,
      101, 32, 116, 111, 32, 115, 105, 122, 101, 32, 108, 105, 109, 105,
      116, 93, 10>>

\* "Error processing "
ErrorPrefix ==
    <<69, 114, 114, 111, 114, 32, 112, 114, 111, 99, 101, 115, 115, 105,
      110, 103, 32>>

\* f"{'=' * 48}\nFile: {file_path}\n{'=' * 48}\n"
Header(file_path) ==
    Repeat(61, HeaderBar) \o <<10, 70, 105, 108, 101, 58, 32>> \o file_path
        \o <<NL>> \o Repeat(61, HeaderBar) \o <<NL>>

-----------------------------------------------------------------------------
(* Decoder: chardet.detect and bytes.decode *)

\* Encoding labels the detector can return; "None" is the absent label.
Labels == {"None", "ascii", "utf-8", "ISO-8859-1", "EUC-TW"}

\* Labels for which Python has a codec.  chardet can return labels such as
\* EUC-TW or ISO-2022-CN for which bytes.decode raises LookupError.
KnownCodecs == {"ascii", "utf-8", "ISO-8859-1"}

IsAscii(bytes) == \A k \in 1..Len(bytes) : bytes[k] < 128

\* chardet.detect(content)['encoding']: no label for empty input, 'ascii'
\* for pure 7-bit input, any label (or none) for input holding high bytes.
DetectResults(bytes) ==
    IF bytes = <<>> THEN {"None"}
    ELSE IF IsAscii(bytes) THEN {"ascii"}
    ELSE Labels

\* A well-formed two-byte UTF-8 sequence starts at the head of bytes.
TwoByteHead(bytes) ==
    /\ Len(bytes) >= 2
    /\ bytes[1] >= 194 /\ bytes[1] <= 223
    /\ bytes[2] >= 128 /\ bytes[2] <= 191

\* The bytes are valid UTF-8 (one- and two-byte sequences; the byte strings
\* of the model hold no longer sequences).
RECURSIVE Utf8Valid(_)
Utf8Valid(bytes) ==
    IF bytes = <<>> THEN TRUE
    ELSE IF bytes[1] < 128 THEN Utf8Valid(Tail(bytes))
    ELSE IF TwoByteHead(bytes) THEN Utf8Valid(Tail(Tail(bytes)))
    ELSE FALSE

\* content.decode('utf-8', errors='replace'): U+FFFD for each offending byte.
RECURSIVE Utf8Replace(_)
Utf8Replace(bytes) ==
    IF bytes = <<>> THEN <<>>
    ELSE IF bytes[1] < 128 THEN <<bytes[1]>> \o Utf8Replace(Tail(bytes))
    ELSE IF TwoByteHead(bytes)
         THEN <<(bytes[1] - 192) * 64 + (bytes[2] - 128)>>
                  \o Utf8Replace(Tail(Tail(bytes)))
    ELSE <<65533>> \o Utf8Replace(Tail(bytes))

\* content.decode(enc): the exception raised ("none" when it returns) and
\* the text returned.
StrictDecode(bytes, enc) ==
    IF enc \notin KnownCodecs THEN [exc |-> "LookupError", text |-> <<>>]
    ELSE IF enc = "ISO-8859-1" THEN [exc |-> "none", text |-> bytes]
    ELSE IF enc = "ascii" THEN
        IF IsAscii(bytes) THEN [exc |-> "none", text |-> bytes]
        ELSE [exc |-> "UnicodeDecodeError", text |-> <<>>]
    ELSE IF Utf8Valid(bytes) THEN [exc |-> "none", text |-> Utf8Replace(bytes)]
    ELSE [exc |-> "UnicodeDecodeError", text |-> <<>>]

\* The try/except around the decode: only UnicodeDecodeError is handled,
\* by the lossy UTF-8 decode; any other exception leaves the block.
DecodeOutcome(bytes, enc) ==
    LET r == StrictDecode(bytes, enc)
    IN  IF r.exc = "UnicodeDecodeError"
        THEN [exc |-> "none", text |-> Utf8Replace(bytes)]
        ELSE r

-----------------------------------------------------------------------------
(* Line filter: str.splitlines, re.compile, regex.match *)

\* The line boundaries of str.splitlines (besides "\r\n").
LineBreaks == {10, 11, 12, 13, 28, 29, 30, 133, 8232, 8233}

RECURSIVE SplitFrom(_, _)
SplitFrom(s, cur) ==
    IF s = <<>> THEN (IF cur = <<>> THEN <<>> ELSE <<cur>>)
    ELSE IF Len(s) >= 2 /\ s[1] = 13 /\ s[2] = 10
         THEN <<cur>> \o SplitFrom(Tail(Tail(s)), <<>>)
    ELSE IF s[1] \in LineBreaks THEN <<cur>> \o SplitFrom(Tail(s), <<>>)
    ELSE SplitFrom(Tail(s), Append(cur, s[1]))

\* text.splitlines()
SplitLines(text) == SplitFrom(text, <<>>)

\* '|'.join(f'({pattern})' for pattern in filter_patterns)
CombinedPattern(patterns) ==
    Join(<<124>>, [k \in 1..Len(patterns) |-> <<40>> \o patterns[k] \o <<41>>])

\* Parenthesis depth after each prefix of a regex source.
RECURSIVE Depth(_, _)
Depth(re, k) ==
    IF k = 0 THEN 0
    ELSE Depth(re, k - 1)
           + (IF re[k] = 40 THEN 1 ELSE IF re[k] = 41 THEN -1 ELSE 0)

\* re.compile(source) succeeds: the parentheses are balanced (the one
\* syntax error the model's patterns can hold).
Compiles(re) ==
    /\ \A k \in 1..Len(re) : Depth(re, k) >= 0
    /\ Depth(re, Len(re)) = 0

\* The alternatives of a regex: its source split at each '|' outside
\* parentheses.
RECURSIVE SplitAlt(_, _, _)
SplitAlt(re, depth, cur) ==
    IF re = <<>> THEN <<cur>>
    ELSE IF re[1] = 124 /\ depth = 0 THEN <<cur>> \o SplitAlt(Tail(re), 0, <<>>)
    ELSE SplitAlt(Tail(re),
                  depth + (IF re[1] = 40 THEN 1 ELSE IF re[1] = 41 THEN -1 ELSE 0),
                  Append(cur, re[1]))

Alternatives(re) == SplitAlt(re, 0, <<>>)

\* The body of a group "(body)"; a source that is no single group is itself.
Ungroup(re) ==
    IF Len(re) >= 2 /\ re[1] = 40 /\ re[Len(re)] = 41
       /\ \A k \in 1..(Len(re) - 1) : Depth(re, k) > 0
    THEN SubSeq(re, 2, Len(re) - 1)
    ELSE re

\* One regex item c matches one character ch ('.' is any but a newline).
ItemMatches(c, ch) == IF c = 46 THEN ch # 10 ELSE c = ch

\* A sequence of items (c, '.', c*, a final '$') matches a prefix of text.
RECURSIVE MatchHere(_, _)
RECURSIVE MatchStar(_, _, _)
MatchHere(re, text) ==
    IF re = <<>> THEN TRUE
    ELSE IF Len(re) >= 2 /\ re[2] = 42
         THEN MatchStar(re[1], SubSeq(re, 3, Len(re)), text)
    ELSE IF re = <<36>> THEN text = <<>>
    ELSE /\ text # <<>>
         /\ ItemMatches(re[1], text[1])
         /\ MatchHere(Tail(re), Tail(text))

MatchStar(c, re, text) ==
    \/ MatchHere(re, text)
    \/ /\ text # <<>>
       /\ ItemMatches(c, text[1])
       /\ MatchStar(c, re, Tail(text))

\* One alternative matches the line from position pos (0-based); a leading
\* '^' matches only at position 0.
AltMatchesAt(alt, line, pos) ==
    IF alt # <<>> /\ alt[1] = 94
    THEN pos = 0 /\ MatchHere(Tail(alt), line)
    ELSE MatchHere(alt, PyFrom(line, pos))

\* A regex.search written for regex.match: a match starting anywhere.
RegexMatchAnywhere(regex, line) ==
    \E a \in 1..Len(Alternatives(regex)) : \E pos \in 0..Len(line) :
        AltMatchesAt(Ungroup(Alternatives(regex)[a]), line, pos)

\* regex.match(line): a match starting at position 0.
RegexMatch(regex, line) ==
    \E a \in 1..Len(Alternatives(regex)) :
        AltMatchesAt(Ungroup(Alternatives(regex)[a]), line, 0)

\* [line for line in lines if not regex.match(line)]
FilteredLines(lines, regex) ==
    LET Keep(line) == ~RegexMatch(regex, line)
    IN  SelectSeq(lines, Keep)

-----------------------------------------------------------------------------
(* Sampler *)

\* The head/middle/tail selection made when the line cap is exceeded.
SelectedLines(fl, cap) ==
    LET beginning == cap \div 3
        end       == cap \div 3
        middle    == cap - beginning - end
    IN  IF middle > 0
        THEN LET middle_start == (Len(fl) - middle) \div 2
             IN  PyPrefix(fl, beginning) \o <<Marker>>
                     \o PySlice(fl, middle_start, middle_start + middle)
                     \o <<Marker>> \o PyFrom(fl, -end)
        ELSE PyPrefix(fl, beginning) \o <<Marker>> \o PyFrom(fl, -end)

\* The line list joined into the body: sampled when a cap is set and exceeded.
SampledLines(fl, cap) ==
    IF cap # 0 /\ Len(fl) > cap THEN SelectedLines(fl, cap) ELSE fl

-----------------------------------------------------------------------------
(* Archive reader and exclusion filter *)

\* f.endswith('/'): the entry is a directory.
IsDirectory(f) == EndsWith(f, <<47>>)

\* any(f.lower().endswith(ext) for ext in exclude_extensions)
HasExcludedSuffix(f, exts) ==
    \E k \in 1..Len(exts) : EndsWith(Lower(f), exts[k])

\* zip_ref.namelist()
NameList(entries) == [k \in 1..Len(entries) |-> entries[k].name]

\* file_list: the sorted names that are no directory and carry no excluded suffix.
FileList(names, exts) ==
    LET Included(f) == ~IsDirectory(f) /\ ~HasExcludedSuffix(f, exts)
    IN  Sorted(SelectSeq(names, Included))

\* all_files
AllFiles(names) ==
    LET NotDir(f) == ~IsDirectory(f)
    IN  SelectSeq(names, NotDir)

\* excluded_files counted with f.endswith(ext), the path not lower-cased.
ExcludedFilesCaseSensitive(all_files, exts) ==
    LET Excluded(f) == \E k \in 1..Len(exts) : EndsWith(f, exts[k])
    IN  SelectSeq(all_files, Excluded)

\* excluded_files
ExcludedFiles(all_files, exts) ==
    LET Excluded(f) == HasExcludedSuffix(f, exts)
    IN  SelectSeq(all_files, Excluded)

\* The stats dictionary as first built.
InitialStats(names, exts) ==
    [total_files     |-> Len(AllFiles(names)),
     excluded_files  |-> Len(ExcludedFiles(AllFiles(names), exts)),
     processed_files |-> Len(FileList(names, exts)),
     errors          |-> <<>>,
     total_chars     |-> 0,
     truncated       |-> FALSE]

\* The archive member zip_ref.read(file_path) reads.
EntryOf(entries, file_path) ==
    CHOOSE e \in {entries[k] : k \in 1..Len(entries)} : e.name = file_path

-----------------------------------------------------------------------------
(* Inputs of the model *)

\* Archive members: name, bytes, and whether reading the member fails
\* (a member whose stored data is damaged).
Entries ==
    { [name |-> <<98, 46, 116, 120, 116>>,                   \* "b.txt"
       data |-> <<97, 98, 10, 98, 10, 97, 97, 10, 98, 99, 13, 10, 99, 10, 97, 98>>,
       corrupt |-> FALSE],                     \* "ab\nb\naa\nbc\r\nc\nab"
      [name |-> <<65, 46, 80, 78, 71>>,                      \* "A.PNG"
       data |-> <<137, 80, 78, 71>>, corrupt |-> FALSE],
      [name |-> <<115, 114, 99, 47>>,                        \* "src/"
       data |-> <<>>, corrupt |-> FALSE],
      [name |-> <<99, 46, 109, 100>>,                        \* "c.md"
       data |-> <<99, 97, 102, 233, 10, 98>>, corrupt |-> FALSE],  \* b"caf\xe9\nb"
      [name |-> <<97, 46, 112, 121>>,                        \* "a.py"
       data |-> <<>>, corrupt |-> TRUE] }

\* Archives: up to MaxFiles distinct members in any order.
Archives ==
    { a \in UNION { [1..n -> Entries] : n \in 0..MaxFiles } :
        \A j, k \in 1..Len(a) : j # k => a[j] # a[k] }

\* Character budgets: unset, and budgets that fall before, on and after the
\* header and body boundaries of the members above.
MaxCharsValues == {0, 110, 120, 126, 240, 1000}

\* Exclusion lists: none, a lower-case suffix, upper-case and other suffixes.
ExtensionLists ==
    { <<>>,
      << <<46, 112, 110, 103>> >>,                           \* ['.png']
      << <<46, 80, 78, 71>>, <<46, 116, 120, 116>> >> }      \* ['.PNG', '.txt']

\* Pattern lists: none, one, two, and one that does not compile.
PatternLists ==
    { <<>>,
      << <<98>> >>,                                          \* ['b']
      << <<98>>, <<94, 97, 97, 42, 36>> >>,                  \* ['b', '^aa*$']
      << <<40>> >> }                                         \* ['(']

-----------------------------------------------------------------------------
(* The function, step by step *)

NoStats == [unset |-> TRUE]

Init ==
    /\ upload \in {"none", "invalid", "valid"}
    /\ IF upload = "valid"
       THEN /\ namelist \in Archives
            /\ max_chars \in MaxCharsValues
            /\ exclude_extensions \in ExtensionLists
            /\ filter_patterns \in PatternLists
            /\ max_lines_per_file \in 0..MaxLineCap
       ELSE /\ namelist = <<>>
            /\ max_chars = 0
            /\ exclude_extensions = <<>>
            /\ filter_patterns = <<>>
            /\ max_lines_per_file = 0
    /\ pc = "start"
    /\ file_list = <<>>
    /\ stats = NoStats
    /\ output_text = <<>>
    /\ total_chars = 0
    /\ i = 1
    /\ content = <<>>
    /\ encoding = "unset"
    /\ decoded_content = <<>>
    /\ filtered_lines = <<>>
    /\ ret = <<>>

\* if not zip_file: return False, "", {"error": ...}
NoUpload ==
    /\ pc = "start"
    /\ upload = "none"
    /\ ret' = <<FALSE, <<>>, [error |-> "No file was uploaded."]>>
    /\ pc' = "done"
    /\ UNCHANGED <<inputs, locals, file_list, stats, output_text, total_chars, i>>

\* zipfile.ZipFile(...) raises on bytes that are no archive; the outer
\* handler returns the failure.
BadArchive ==
    /\ pc = "start"
    /\ upload = "invalid"
    /\ ret' = <<FALSE, <<>>, [error |-> "Error processing zip file: BadZipFile"]>>
    /\ pc' = "done"
    /\ UNCHANGED <<inputs, locals, file_list, stats, output_text, total_chars, i>>

\* The archive opens: file_list, the counts and the empty output are set up.
OpenArchive ==
    /\ pc = "start"
    /\ upload = "valid"
    /\ file_list' = FileList(NameList(namelist), exclude_extensions)
    /\ stats' = InitialStats(NameList(namelist), exclude_extensions)
    /\ output_text' = <<>>
    /\ total_chars' = 0
    /\ i' = 1
    /\ pc' = "loop"
    /\ UNCHANGED <<inputs, locals, ret>>

\* f"Error processing {file_path}: {str(e)}"
ErrorMsg(file_path, exc) ==
    [text |-> ErrorPrefix \o file_path \o <<58, 32>>, exc |-> exc]

\* A handler that also takes the failed file out of the processed count.
RecordErrorUncounts(file_path, exc) ==
    /\ stats' = [stats EXCEPT !.errors = Append(@, ErrorMsg(file_path, exc)),
                              !.processed_files = @ - 1]
    /\ i' = i + 1
    /\ pc' = "loop"
    /\ UNCHANGED <<inputs, file_list, output_text, total_chars, ret>>

\* No per-file handler: the exception reaches the outer handler.
RecordErrorAborts(file_path, exc) ==
    /\ ret' = <<FALSE, <<>>, [error |-> "Error processing zip file: " \o exc]>>
    /\ pc' = "done"
    /\ UNCHANGED <<inputs, file_list, stats, output_text, total_chars, i>>

\* except Exception as e: the message is recorded and the loop goes on
\* with the next file.
RecordError(file_path, exc) ==
    /\ stats' = [stats EXCEPT !.errors = Append(@, ErrorMsg(file_path, exc))]
    /\ i' = i + 1
    /\ pc' = "loop"
    /\ UNCHANGED <<inputs, file_list, output_text, total_chars, ret>>

\* content = zip_ref.read(file_path)
ReadFile ==
    /\ pc = "loop"
    /\ i <= Len(file_list)
    /\ LET e == EntryOf(namelist, file_list[i])
       IN  IF e.corrupt
           THEN RecordError(file_list[i], "BadZipFile") /\ UNCHANGED locals
           ELSE /\ content' = e.data
                /\ pc' = "decode"
                /\ UNCHANGED <<inputs, file_list, stats, output_text, total_chars,
                               i, encoding, decoded_content, filtered_lines, ret>>

\* chardet.detect, then the decode with its UnicodeDecodeError fallback.
DecodeFile ==
    /\ pc = "decode"
    /\ \E label \in DetectResults(content) :
         LET enc == IF label = "None" THEN "utf-8" ELSE label
             r   == DecodeOutcome(content, enc)
         IN  /\ encoding' = enc
             /\ IF r.exc # "none"
                THEN /\ RecordError(file_list[i], r.exc)
                     /\ UNCHANGED <<content, decoded_content, filtered_lines>>
                ELSE /\ decoded_content' = r.text
                     /\ pc' = "filter"
                     /\ UNCHANGED <<inputs, file_list, stats, output_text,
                                    total_chars, i, content, filtered_lines, ret>>

\* if filter_patterns and len(filter_patterns) > 0: compile, split, filter.
FilterFile ==
    /\ pc = "filter"
    /\ IF filter_patterns # <<>>
       THEN IF ~Compiles(CombinedPattern(filter_patterns))
            THEN RecordError(file_list[i], "re.error") /\ UNCHANGED locals
            ELSE /\ filtered_lines' =
                        FilteredLines(SplitLines(decoded_content),
                                      CombinedPattern(filter_patterns))
                 /\ pc' = "sample"
                 /\ UNCHANGED <<inputs, file_list, stats, output_text, total_chars,
                                i, content, encoding, decoded_content, ret>>
       ELSE /\ pc' = "assemble"
            /\ UNCHANGED <<inputs, locals, file_list, stats, output_text,
                           total_chars, i, ret>>

\* The max-lines sampling and the join, both inside the filtering branch.
SampleFile ==
    /\ pc = "sample"
    /\ filtered_lines' = SampledLines(filtered_lines, max_lines_per_file)
    /\ decoded_content' = Join(<<NL>>, filtered_lines')
    /\ pc' = "assemble"
    /\ UNCHANGED <<inputs, file_list, stats, output_text, total_chars, i,
                   content, encoding, ret>>

\* A budget check on the file alone, the running total left out.
OverBudgetPerFile(total, content_length, budget) ==
    budget # 0 /\ content_length > budget

\* max_chars and (total_chars + content_length > max_chars)
OverBudget(total, content_length, budget) ==
    budget # 0 /\ total + content_length > budget

\* remaining >= len(header)
HeaderFitsOrEqual(remaining, header) == remaining >= Len(header)

\* remaining > len(header)
HeaderFits(remaining, header) == remaining > Len(header)

\* The output after the truncation branch.
TruncatedOutput(out, header, body, remaining) ==
    IF HeaderFits(remaining, header)
    THEN out \o header \o PyPrefix(body, remaining - Len(header)) \o TruncatedNotice
    ELSE out \o OmittedNotice

\* The output after a file is added in full.
AppendedOutput(out, header, body) == out \o header \o body \o Separator

\* The header, the budget check, and the truncation or the append.
AssembleFile ==
    /\ pc = "assemble"
    /\ LET header         == Header(file_list[i])
           content_length == Len(header) + Len(decoded_content)
       IN  IF OverBudget(total_chars, content_length, max_chars)
           THEN /\ output_text' = TruncatedOutput(output_text, header, decoded_content,
                                                  max_chars - total_chars)
                /\ stats' = [stats EXCEPT !.truncated = TRUE]
                /\ pc' = "after"
                /\ UNCHANGED <<total_chars, i>>
           ELSE /\ output_text' = AppendedOutput(output_text, header, decoded_content)
                /\ total_chars' = total_chars + content_length
                /\ i' = i + 1
                /\ pc' = "loop"
                /\ UNCHANGED stats
    /\ UNCHANGED <<inputs, locals, file_list, ret>>

\* After the loop (exhausted or left by break): the final stats and the return.
Finish ==
    /\ \/ pc = "loop" /\ i > Len(file_list)
       \/ pc = "after"
    /\ stats' = [stats EXCEPT !.total_chars = total_chars]
    /\ ret' = <<TRUE, output_text, stats'>>
    /\ pc' = "done"
    /\ UNCHANGED <<inputs, locals, file_list, output_text, total_chars, i>>

Next ==
    \/ NoUpload
    \/ BadArchive
    \/ OpenArchive
    \/ ReadFile
    \/ DecodeFile
    \/ FilterFile
    \/ SampleFile
    \/ AssembleFile
    \/ Finish

Spec == Init /\ [][Next]_vars

-----------------------------------------------------------------------------
(* Vocabulary of the claims *)

\* The run returned the success tuple (True, text, stats).
Returned == pc = "done" /\ upload = "valid" /\ ret[1] = TRUE

\* The stats dictionary exists (the archive opened).
HasStats == pc # "start" /\ upload = "valid"

\* The indices of the non-directory entries of the archive.
NonDirectoryEntries ==
    { k \in 1..Len(namelist) : namelist[k].name[Len(namelist[k].name)] # 47 }

\* Some element of the sequence equals x.
Occurs(x, seq) == \E k \in 1..Len(seq) : seq[k] = x

\* The pattern, on its own, matches the line from position 0.
PatternMatchesAtStart(pattern, line) == AltMatchesAt(pattern, line, 0)

\* The lines that no pattern of the list matches from position 0, in order.
UnmatchedLines(lines, patterns) ==
    LET Unmatched(line) ==
            \A k \in 1..Len(patterns) : ~PatternMatchesAtStart(patterns[k], line)
    IN  SelectSeq(lines, Unmatched)

-----------------------------------------------------------------------------
(* C1 *)

\* C1: whenever the run returns statistics, excluded_files + processed_files
\* equals total_files, and total_files is the number of non-directory
\* entries of the archive: with per-file errors and after a truncation too.
C1_CountsAddUp ==
    Returned =>
        /\ ret[3].excluded_files + ret[3].processed_files = ret[3].total_files
        /\ ret[3].total_files = Cardinality(NonDirectoryEntries)

\* A returned run with an excluded file, a per-file error and a truncation.
C1_Witness ==
    /\ Returned
    /\ ret[3].excluded_files > 0
    /\ Len(ret[3].errors) > 0
    /\ ret[3].truncated

-----------------------------------------------------------------------------
(* C2 *)

\* C2: with max_chars set, the returned text is never longer than max_chars
\* plus the length of a truncation notice (the longer of the two notices is
\* allowed here, so every reading of "the notice" is covered).
C2_OutputWithinBudget ==
    (Returned /\ max_chars > 0) =>
        Len(ret[2]) <= max_chars + Max(Len(TruncatedNotice), Len(OmittedNotice))

-----------------------------------------------------------------------------
(* C3 *)

\* The sample as the claim describes it: the first cap \div 3 lines, a
\* marker, the middle lines from index (n - middle) \div 2, a marker, the
\* last cap \div 3 lines (none when cap \div 3 is 0).
DescribedSample(fl, cap) ==
    LET third  == cap \div 3
        middle == cap - 2 * third
        start  == (Len(fl) - middle) \div 2
    IN  SubSeq(fl, 1, third) \o <<Marker>>
            \o SubSeq(fl, start + 1, start + middle) \o <<Marker>>
            \o SubSeq(fl, Len(fl) - third + 1, Len(fl))

\* C3: for every cap L >= 1 and every filtered line list longer than L, the
\* sampling step yields exactly head, marker, middle, marker, tail as
\* described, hence L + 2 elements.
C3_SampleAsDescribed ==
    [][(pc = "sample" /\ max_lines_per_file >= 1
            /\ Len(filtered_lines) > max_lines_per_file)
        => /\ filtered_lines' = DescribedSample(filtered_lines, max_lines_per_file)
           /\ Len(filtered_lines') = max_lines_per_file + 2]_vars

-----------------------------------------------------------------------------
(* C4 *)

\* The entry's lower-cased path ends with the lower-cased form of a
\* configured suffix.
MatchesSuffixIgnoringCase(f, exts) ==
    \E k \in 1..Len(exts) : EndsWith(Lower(f), Lower(exts[k]))

\* C4: every non-directory entry whose lower-cased path ends with the
\* lower-cased form of a configured suffix is counted in excluded_files and
\* is never processed: it is not in file_list, so neither its header nor its
\* content is appended.
C4_ExcludedWhateverTheCase ==
    HasStats =>
        LET hit == { k \in NonDirectoryEntries :
                        MatchesSuffixIgnoringCase(namelist[k].name, exclude_extensions) }
        IN  /\ stats.excluded_files = Cardinality(hit)
            /\ \A k \in hit : ~Occurs(namelist[k].name, file_list)

-----------------------------------------------------------------------------
(* C5 *)

-----------------------------------------------------------------------------
(* C6 *)

\* The step about to be taken fails on the current file: the member cannot
\* be read, the decode raises an exception the fallback does not handle
\* (label is the detector's result for this step), or the combined pattern
\* does not compile.
ReadFails == pc = "loop" /\ i <= Len(file_list) /\ EntryOf(namelist, file_list[i]).corrupt

DecodeFails(enc) == pc = "decode" /\ DecodeOutcome(content, enc).exc # "none"

FilterFails ==
    pc = "filter" /\ filter_patterns # <<>> /\ ~Compiles(CombinedPattern(filter_patterns))

\* The fields of the complete statistics record.
StatsFields ==
    {"total_files", "excluded_files", "processed_files", "errors", "total_chars",
     "truncated"}

\* C6: when a step fails on a file, exactly one message naming that file is
\* appended to stats.errors; the output text, total_chars and the three
\* counts stay as they were; the loop goes on with the next file; errors
\* change in no other way; and the run returns success with the complete
\* statistics record.
C6_PerFileFailureIsLocal ==
    /\ [][(HasStats /\ pc # "done") =>
            IF ReadFails \/ DecodeFails(encoding') \/ FilterFails
            THEN /\ Len(stats'.errors) = Len(stats.errors) + 1
                 /\ SubSeq(stats'.errors, 1, Len(stats.errors)) = stats.errors
                 /\ stats'.errors[Len(stats'.errors)].text
                        = ErrorPrefix \o file_list[i] \o <<58, 32>>
                 /\ output_text' = output_text
                 /\ total_chars' = total_chars
                 /\ stats'.total_files = stats.total_files
                 /\ stats'.excluded_files = stats.excluded_files
                 /\ stats'.processed_files = stats.processed_files
                 /\ stats'.truncated = stats.truncated
                 /\ i' = i + 1
                 /\ pc' = "loop"
            ELSE stats'.errors = stats.errors]_vars
    /\ [](pc = "done" /\ upload = "valid" =>
            /\ ret[1] = TRUE
            /\ DOMAIN ret[3] = StatsFields
            /\ ret[3].errors = stats.errors
            /\ ret[2] = output_text)

\* A returned run in which a file failed, the next one was added in full and
\* a later one failed again.
C6_Witness ==
    /\ Returned
    /\ Len(ret[3].errors) = 2
    /\ ret[3].errors[1].exc = "BadZipFile"
    /\ ret[3].total_chars > 0
    /\ Len(ret[2]) > 0

-----------------------------------------------------------------------------
(* C7 *)

\* C7: the decode step always produces a string: the strict decode's text
\* when it succeeds, the UTF-8 decode with replacement characters otherwise;
\* the file goes on to the filter step and nothing is added to stats.errors.
C7_DecodeNeverFails ==
    [][pc = "decode" =>
        /\ pc' = "filter"
        /\ stats' = stats
        /\ decoded_content' =
              (IF StrictDecode(content, encoding').exc = "none"
               THEN StrictDecode(content, encoding').text
               ELSE Utf8Replace(content))]_vars

-----------------------------------------------------------------------------
(* C8 *)

\* C8: bytes that are no archive end the run with status False, an empty
\* text and a record holding only an error message, and no output is ever
\* produced; a run on a valid archive always returns status True with the
\* complete statistics record, whatever fails per file and whether or not
\* the budget is exhausted.
C8_OnlyArchiveFailureAborts ==
    /\ upload = "invalid" => output_text = <<>>
    /\ (pc = "done" /\ upload = "invalid") =>
          /\ ret[1] = FALSE
          /\ ret[2] = <<>>
          /\ DOMAIN ret[3] = {"error"}
    /\ (pc = "done" /\ upload = "valid") =>
          /\ ret[1] = TRUE
          /\ DOMAIN ret[3] = StatsFields

\* A run on a valid archive that returned after a per-file failure and a
\* truncation.
C8_Witness ==
    /\ Returned
    /\ Len(ret[3].errors) > 0
    /\ ret[3].truncated
    /\ Len(ret[2]) > Len(OmittedNotice)

-----------------------------------------------------------------------------
(* C9 *)

\* The truncation flag of an opened run.
Truncated == HasStats /\ stats.truncated

\* The file about to be assembled does not fit the budget.
ExceedsBudget ==
    /\ pc = "assemble"
    /\ max_chars # 0
    /\ total_chars + Len(Header(file_list[i])) + Len(decoded_content) > max_chars

\* What the output receives at the file that exceeds the budget.
TruncationText ==
    LET header    == Header(file_list[i])
        remaining == max_chars - total_chars
    IN  IF remaining > Len(header)
        THEN header \o SubSeq(decoded_content, 1, remaining - Len(header))
                 \o TruncatedNotice
        ELSE OmittedNotice

\* C9: at the first file that exceeds the budget the output receives the
\* header, the first remaining - len(header) characters of the body and the
\* truncation notice when remaining > len(header), and only the omission
\* notice otherwise; truncated becomes true and the loop stops: afterwards
\* only the return happens, so no later file is read, appended or recorded
\* as an error and the notice ends the output; truncated becomes true in no
\* other way.
C9_TruncateAndStop ==
    /\ [][HasStats =>
            /\ ExceedsBudget =>
                  /\ output_text' = output_text \o TruncationText
                  /\ stats'.truncated
                  /\ stats'.errors = stats.errors
                  /\ pc' = "after"
                  /\ i' = i /\ total_chars' = total_chars
            /\ (~stats.truncated /\ stats'.truncated) => ExceedsBudget
            /\ stats.truncated =>
                  /\ pc = "after" /\ pc' = "done"
                  /\ output_text' = output_text
                  /\ stats'.errors = stats.errors
                  /\ stats'.truncated
                  /\ i' = i /\ content' = content
                  /\ ret'[2] = output_text]_vars
    /\ [](Truncated =>
            \/ EndsWith(output_text, TruncatedNotice)
            \/ EndsWith(output_text, OmittedNotice))

\* A returned run truncated inside a file's body after an earlier file was
\* added in full, with a later file left unread.
C9_Witness ==
    /\ Returned
    /\ ret[3].truncated
    /\ ret[3].total_chars > 0
    /\ EndsWith(ret[2], TruncatedNotice)
    /\ i < Len(file_list)

-----------------------------------------------------------------------------
(* C10 *)

\* C10: with a line cap L set, every file that reaches assembly and whose
\* line count after filtering exceeds L has the head/middle/tail sample of
\* its filtered lines as its body, for every pattern list, the empty one
\* included (with it no line is removed).
C10_SampledForEveryPatternList ==
    (pc = "assemble" /\ max_lines_per_file # 0) =>
        LET fl == UnmatchedLines(SplitLines(DecodeOutcome(content, encoding).text),
                                 filter_patterns)
        IN  Len(fl) > max_lines_per_file =>
                decoded_content = Join(<<NL>>, SelectedLines(fl, max_lines_per_file))

-----------------------------------------------------------------------------
(* C11 *)

\* The number of files added in full so far: the finished iterations that
\* did not end in the error handler (a truncation leaves i as it is).
FilesAddedInFull == i - 1 - Len(stats.errors)

\* C11: total_chars never decreases; it grows only when a file is added in
\* full, and then by len(header) + len(body) of that file, the 2-character
\* separator not counted; a truncation leaves it unchanged; so with
\* max_chars set total_chars and the returned stats.total_chars never exceed
\* max_chars, and before any truncation the output is total_chars plus 2
\* characters per file added in full.
C11_TotalCharsAccounting ==
    /\ [][HasStats =>
            /\ total_chars' >= total_chars
            /\ IF pc = "assemble" /\ ~ExceedsBudget
               THEN /\ total_chars' = total_chars + Len(Header(file_list[i]))
                                          + Len(decoded_content)
                    /\ Len(output_text') = Len(output_text)
                           + (total_chars' - total_chars) + Len(Separator)
               ELSE total_chars' = total_chars
            /\ stats'.total_chars = IF pc' = "done" THEN total_chars ELSE 0]_vars
    /\ [](HasStats =>
            /\ max_chars # 0 =>
                  total_chars <= max_chars /\ stats.total_chars <= max_chars
            /\ ~stats.truncated =>
                  Len(output_text) = total_chars + 2 * FilesAddedInFull
            /\ pc = "done" => ret[3].total_chars = total_chars)

\* A returned run with a budget in which a file failed, a file was added in
\* full and a later one was truncated: the output is longer than total_chars
\* plus the separators.
C11_Witness ==
    /\ Returned
    /\ max_chars # 0
    /\ Len(ret[3].errors) > 0
    /\ ret[3].truncated
    /\ FilesAddedInFull >= 1
    /\ ret[3].total_chars > 0
    /\ Len(ret[2]) > ret[3].total_chars + 2 * FilesAddedInFull

====
